---- MODULE Spec2Model ----
(***************************************************************************)
(* Ekhaya Legae API: the HTTP surface of src/main.py over the schemas of   *)
(* src/schemas.py and the document store adapter (create_document,         *)
(* get_documents, db) that main.py imports from the database module.       *)
(*                                                                         *)
(* Encoding of Python values:                                              *)
(*   None            <<>>                                                  *)
(*   Optional[T] v   <<v>>   (a present value of an Optional field or      *)
(*                            of an optional query parameter)             *)
(*   str (email)     a sequence of one-character strings, so that          *)
(*                   validation and normalisation are computed             *)
(*   dict / model    a record; a JSON body is a record whose DOMAIN is     *)
(*                   the set of keys the client sent                       *)
(***************************************************************************)
EXTENDS Integers, Sequences, FiniteSets, TLC

VARIABLES db, reachable, store, nextId, req, resp

vars == <<db, reachable, store, nextId, req, resp>>

\* ------------------------------------------------------------------------
\* Bounds of the model
\* ------------------------------------------------------------------------
MaxInserts == 1
SmallSeed == 3
MaxSeed == 21
MaxStats == 2
MaxLimit == 2

\* ------------------------------------------------------------------------
\* Program constants
\* ------------------------------------------------------------------------
TicketQuantityDefault == 1
TicketQuantityMin == 1
TicketQuantityMax == 10
AgeMin == 16
AgeMax == 100
EventsDefaultLimit == 10
ResourcesDefaultLimit == 20
PartnersDefaultLimit == 20
StoriesDefaultLimit == 10
ServiceUnavailable == 503

\* ------------------------------------------------------------------------
\* Python values
\* ------------------------------------------------------------------------
None == <<>>

Some(x) == <<x>>

\* Python truthiness of an Optional[str]: None and "" are falsy.
Truthy(opt) == opt # None /\ opt[1] # ""

Min(a, b) == IF a < b THEN a ELSE b

Max(a, b) == IF a < b THEN b ELSE a

DigitChar(d) == <<"0", "1", "2", "3", "4", "5", "6", "7", "8", "9">>[d + 1]

RECURSIVE Digits(_)
Digits(n) == IF n < 10 THEN <<DigitChar(n)>>
             ELSE Append(Digits(n \div 10), DigitChar(n % 10))

\* ------------------------------------------------------------------------
\* EmailStr (schemas.py): syntax check and normalisation of an address
\* ------------------------------------------------------------------------
AtPositions(e) == {i \in 1..Len(e) : e[i] = "@"}

AtIndex(e) == CHOOSE i \in AtPositions(e) : TRUE

DotsWellPlaced(s) ==
    /\ Len(s) > 0
    /\ s[1] # "."
    /\ s[Len(s)] # "."
    /\ \A i \in 1..(Len(s) - 1) : ~(s[i] = "." /\ s[i + 1] = ".")

ValidEmail(e) ==
    /\ Cardinality(AtPositions(e)) = 1
    /\ LET k == AtIndex(e)
           local == SubSeq(e, 1, k - 1)
           domain == SubSeq(e, k + 1, Len(e))
       IN  /\ DotsWellPlaced(local)
           /\ DotsWellPlaced(domain)
           /\ \E i \in 1..Len(domain) : domain[i] = "."

Lower(c) == IF c = "B" THEN "b" ELSE IF c = "C" THEN "c" ELSE c

\* The validated value of an EmailStr field: the domain part in lower case.
NormalizeEmail(e) ==
    LET k == AtIndex(e)
    IN  [i \in 1..Len(e) |-> IF i > k THEN Lower(e[i]) ELSE e[i]]

\* ------------------------------------------------------------------------
\* Schemas (schemas.py).  A schema lists its fields, the required ones, the
\* defaults of the others, its EmailStr fields, its Optional-typed fields
\* and its numeric bounds (ge / le).
\* ------------------------------------------------------------------------
Event ==
    [collection |-> "event",
     fields |-> {"title", "description", "start_time", "end_time", "location",
                 "organizer", "capacity", "status", "categories"},
     required |-> {"title", "start_time", "end_time", "location"}]

\* Booking with the upper bound of ticket_quantity left out.
BookingNoUpperBound ==
    [collection |-> "booking",
     fields |-> {"event_id", "full_name", "email", "phone", "ticket_quantity",
                 "notes", "consent_sms"},
     required |-> {"event_id", "full_name", "email"},
     defaults |-> [phone |-> None, ticket_quantity |-> TicketQuantityDefault,
                   notes |-> None, consent_sms |-> FALSE],
     emails |-> {"email"},
     optional |-> {"phone", "notes"},
     ge |-> [ticket_quantity |-> TicketQuantityMin],
     le |-> <<>>]

Booking ==
    [collection |-> "booking",
     fields |-> {"event_id", "full_name", "email", "phone", "ticket_quantity",
                 "notes", "consent_sms"},
     required |-> {"event_id", "full_name", "email"},
     defaults |-> [phone |-> None, ticket_quantity |-> TicketQuantityDefault,
                   notes |-> None, consent_sms |-> FALSE],
     emails |-> {"email"},
     optional |-> {"phone", "notes"},
     ge |-> [ticket_quantity |-> TicketQuantityMin],
     le |-> [ticket_quantity |-> TicketQuantityMax]]

TrainingApplication ==
    [collection |-> "trainingapplication",
     fields |-> {"full_name", "email", "phone", "age", "highest_qualification",
                 "area", "motivation", "consent_sms"},
     required |-> {"full_name", "email", "phone"},
     defaults |-> [age |-> None, highest_qualification |-> None, area |-> None,
                   motivation |-> None, consent_sms |-> FALSE],
     emails |-> {"email"},
     optional |-> {"age", "highest_qualification", "area", "motivation"},
     ge |-> [age |-> AgeMin],
     le |-> [age |-> AgeMax]]

ContactMessage ==
    [collection |-> "contactmessage",
     fields |-> {"name", "email", "phone", "subject", "message"},
     required |-> {"name", "email", "subject", "message"},
     defaults |-> [phone |-> None],
     emails |-> {"email"},
     optional |-> {"phone"},
     ge |-> <<>>,
     le |-> <<>>]

Story ==
    [collection |-> "story",
     fields |-> {"title", "body", "author", "featured"},
     required |-> {"title", "body"}]

Partner ==
    [collection |-> "partner",
     fields |-> {"name", "logo_url", "website", "category"},
     required |-> {"name"}]

Resource ==
    [collection |-> "resource",
     fields |-> {"title", "type", "url", "description", "language"},
     required |-> {"title", "type", "url"}]

SiteStat ==
    [collection |-> "sitestat",
     fields |-> {"label", "value"},
     required |-> {"label"}]

\* ------------------------------------------------------------------------
\* Request body validation, as FastAPI applies a schema to a JSON body
\* before the handler runs: the fields in error, and the validated record.
\* ------------------------------------------------------------------------
\* The number a numeric field holds; an empty set when an Optional one is None.
Numbers(schema, body, f) ==
    IF f \in schema.optional
    THEN (IF body[f] = None THEN {} ELSE {body[f][1]})
    ELSE {body[f]}

ValidationErrors(schema, body) ==
    {f \in schema.required : f \notin DOMAIN body}
    \cup {f \in schema.emails \cap DOMAIN body : ~ValidEmail(body[f])}
    \cup {f \in DOMAIN schema.ge \cap DOMAIN body :
            \E n \in Numbers(schema, body, f) : n < schema.ge[f]}
    \cup {f \in DOMAIN schema.le \cap DOMAIN body :
            \E n \in Numbers(schema, body, f) : n > schema.le[f]}

\* The model instance: every field of the schema, a sent field with its
\* validated value and an omitted one with its default.
Validated(schema, body) ==
    [f \in schema.fields |->
        IF f \in DOMAIN body
        THEN (IF f \in schema.emails THEN NormalizeEmail(body[f]) ELSE body[f])
        ELSE schema.defaults[f]]

\* ------------------------------------------------------------------------
\* Document store adapter (database module): db, create_document,
\* get_documents.  A call either returns or raises: it raises without a
\* connection handle, and when the store cannot be reached or operated.
\* ------------------------------------------------------------------------
NoDb == "None"

Connected == "Database"

WrittenCollections == {"booking", "trainingapplication", "contactmessage"}

SeededCollections == {"event", "story", "partner", "resource", "sitestat"}

Collections == WrittenCollections \cup SeededCollections

Raise(msg) == [ok |-> FALSE, error |-> msg]

\* The opaque string form of a store-assigned identifier.
IdString(id) == Digits(id)

WithId(record, id) ==
    [f \in DOMAIN record \cup {"_id"} |-> IF f = "_id" THEN id ELSE record[f]]

\* insert(collectionName, record) -> DocumentId
create_document(collection_name, data) ==
    IF db = NoDb THEN Raise("Database not available")
    ELSE IF ~reachable THEN Raise("insert failed")
    ELSE [ok |-> TRUE,
          id |-> IdString(nextId),
          collection |-> collection_name,
          document |-> WithId(data, nextId)]

Matches(doc, filter_dict) ==
    \A f \in DOMAIN filter_dict : f \in DOMAIN doc /\ doc[f] = filter_dict[f]

Take(s, n) == SubSeq(s, 1, Max(0, Min(n, Len(s))))

\* query(collectionName, filter, limit) -> Record[]
get_documents(collection_name, filter_dict, limit) ==
    IF db = NoDb THEN Raise("Database not available")
    ELSE IF ~reachable THEN Raise("query failed")
    ELSE LET found == SelectSeq(store[collection_name],
                                LAMBDA doc : Matches(doc, filter_dict))
         IN  [ok |-> TRUE,
              items |-> IF limit = None THEN found ELSE Take(found, limit[1])]

\* ------------------------------------------------------------------------
\* Store contents at start: the out-of-band managed collections hold the
\* first n documents of a fixed list, the form collections are empty.
\* ------------------------------------------------------------------------
ResourceTypes == <<"pdf", "video", "link">>

ResourceLanguages == <<"English", "Zulu">>

EventDoc(i) == [_id |-> i, title |-> "Testing day", status |-> "published"]

StoryDoc(i) == [_id |-> i, title |-> "Story", featured |-> (i % 3 # 0)]

PartnerDoc(i) == [_id |-> i, name |-> "Clinic"]

ResourceDoc(i) ==
    [_id |-> i, title |-> "Guide",
     type |-> ResourceTypes[(i % 3) + 1],
     language |-> ResourceLanguages[(i % 2) + 1]]

SiteStatDoc(i) == [_id |-> i, label |-> "Tests Conducted", value |-> i]

SeedSizes == {0, SmallSeed, MaxSeed}

SeededStore(n) ==
    [c \in Collections |->
        CASE c = "event" -> [i \in 1..n |-> EventDoc(i)]
          [] c = "story" -> [i \in 1..n |-> StoryDoc(i)]
          [] c = "partner" -> [i \in 1..n |-> PartnerDoc(i)]
          [] c = "resource" -> [i \in 1..n |-> ResourceDoc(i)]
          [] c = "sitestat" -> [i \in 1..Min(n, MaxStats) |-> SiteStatDoc(i)]
          [] OTHER -> <<>>]

\* main.py imports db once; the connection attempt at process start either
\* failed (None) or produced a database handle.
Init ==
    /\ db \in {NoDb, Connected}
    /\ reachable \in BOOLEAN
    /\ \E n \in SeedSizes : store = SeededStore(n)
    /\ nextId = 1
    /\ req = [op |-> "start"]
    /\ resp = [status |-> 0]

\* ------------------------------------------------------------------------
\* Request inputs
\* ------------------------------------------------------------------------
EmailPlain == <<"a", "@", "b", ".", "c">>

EmailUpperDomain == <<"a", "@", "B", ".", "c">>

EmailNoAt == <<"a", "b", ".", "c">>

EmailNoDot == <<"a", "@", "b">>

With(r, f, v) == [k \in DOMAIN r \cup {f} |-> IF k = f THEN v ELSE r[k]]

Without(r, f) == [k \in DOMAIN r \ {f} |-> r[k]]

BookingMinimal ==
    [event_id |-> "e1", full_name |-> "Thandi", email |-> EmailPlain]

BookingComplete ==
    [event_id |-> "e1", full_name |-> "Thandi", email |-> EmailPlain,
     phone |-> Some("082"), ticket_quantity |-> TicketQuantityMax,
     notes |-> Some("aisle"), consent_sms |-> TRUE]

BookingBodies ==
    {BookingMinimal, BookingComplete,
     With(BookingMinimal, "email", EmailUpperDomain),
     With(BookingMinimal, "ticket_quantity", TicketQuantityMin),
     With(BookingComplete, "ticket_quantity", TicketQuantityMin - 1),
     With(BookingComplete, "ticket_quantity", TicketQuantityMax + 1),
     With(BookingComplete, "email", EmailNoAt),
     With(BookingComplete, "email", EmailNoDot),
     Without(BookingComplete, "event_id"),
     Without(BookingComplete, "full_name"),
     Without(BookingComplete, "email")}

ApplicationMinimal ==
    [full_name |-> "Sipho", email |-> EmailPlain, phone |-> "082"]

ApplicationComplete ==
    [full_name |-> "Sipho", email |-> EmailPlain, phone |-> "082",
     age |-> Some(AgeMin), highest_qualification |-> Some("Matric"),
     area |-> Some("Soweto"), motivation |-> Some("nursing"),
     consent_sms |-> TRUE]

ApplicationBodies ==
    {ApplicationMinimal, ApplicationComplete,
     With(ApplicationMinimal, "email", EmailUpperDomain),
     With(ApplicationMinimal, "age", None),
     With(ApplicationComplete, "age", Some(AgeMin - 1)),
     With(ApplicationComplete, "age", Some(AgeMax + 1)),
     With(ApplicationComplete, "email", EmailNoAt),
     Without(ApplicationComplete, "full_name"),
     Without(ApplicationComplete, "email"),
     Without(ApplicationComplete, "phone")}

ContactMinimal ==
    [name |-> "Lerato", email |-> EmailPlain, subject |-> "Visit",
     message |-> "When are you open?"]

ContactComplete == With(ContactMinimal, "phone", Some("082"))

ContactBodies ==
    {ContactMinimal, ContactComplete,
     With(ContactMinimal, "email", EmailUpperDomain),
     With(ContactComplete, "email", EmailNoDot),
     Without(ContactComplete, "name"),
     Without(ContactComplete, "email"),
     Without(ContactComplete, "subject"),
     Without(ContactComplete, "message")}

\* A limit query parameter: absent, or an integer.
Limits == {None} \cup {Some(n) : n \in (0 - 1)..MaxLimit}

TypeParams == {None, Some(""), Some("pdf")}

LanguageParams == {None, Some("Zulu")}

\* What os.getenv returns for a configuration variable.
EnvValues == {None, Some("configured")}

\* ------------------------------------------------------------------------
\* HTTP surface (main.py).  Each action is one request handled to its
\* response: req is the request, resp the response sent.
\* ------------------------------------------------------------------------
Ok(body) == [status |-> 200, body |-> body]

\* FastAPI's answer to a body that fails its schema.
Unprocessable(errors) == [status |-> 422, body |-> [detail |-> errors]]

\* raise HTTPException(status_code=503, detail=str(e))
HTTPException(status_code, detail) ==
    [status |-> status_code, body |-> [detail |-> detail]]

\* A declared default of an int query parameter (limit: int = 10).
Defaulted(limit, default) == IF limit = None THEN Some(default) ELSE limit

\* GET /
read_root ==
    /\ req' = [op |-> "read_root"]
    /\ resp' = Ok([message |-> "Ekhaya Legae API running"])
    /\ UNCHANGED <<db, reachable, store, nextId>>

\* db.list_collection_names()
list_collection_names == {c \in Collections : store[c] # <<>>}

EnvLabel(value) == IF Truthy(value) THEN "Set" ELSE "Not Set"

\* The response dict of test_database before its last two assignments.
Diagnosis(env_url, name_raises) ==
    LET response ==
            [backend |-> "Running", database |-> "Not Available",
             database_url |-> "None", database_name |-> "None",
             connection_status |-> "Not Connected", collections |-> {}]
    IN  IF db = NoDb
        THEN [response EXCEPT !.database = "Available but not initialized"]
        ELSE IF name_raises
        THEN [response EXCEPT !.database = "Error: name",
                              !.database_url = EnvLabel(env_url)]
        ELSE LET connected ==
                     [response EXCEPT !.database = "Available",
                                      !.database_url = EnvLabel(env_url),
                                      !.database_name = "ekhaya",
                                      !.connection_status = "Connected"]
             IN  IF ~reachable
                 THEN [connected EXCEPT
                          !.database = "Connected but Error: listing failed"]
                 ELSE [connected EXCEPT
                          !.collections = list_collection_names,
                          !.database = "Connected & Working"]

\* test_database without its last assignment to database_name.
TestDatabaseKeepsInnerName(env_url, env_name, name_raises) ==
    /\ req' = [op |-> "test_database", env_url |-> env_url,
               env_name |-> env_name, name_raises |-> name_raises]
    /\ resp' = Ok([Diagnosis(env_url, name_raises) EXCEPT
                      !.database_url = EnvLabel(env_url)])
    /\ UNCHANGED <<db, reachable, store, nextId>>

\* GET /test
test_database(env_url, env_name, name_raises) ==
    /\ req' = [op |-> "test_database", env_url |-> env_url,
               env_name |-> env_name, name_raises |-> name_raises]
    /\ resp' = Ok([Diagnosis(env_url, name_raises) EXCEPT
                      !.database_url = EnvLabel(env_url),
                      !.database_name = EnvLabel(env_name)])
    /\ UNCHANGED <<db, reachable, store, nextId>>

model_schema(model) ==
    [collection |-> model.collection,
     fields |-> [f \in model.fields |-> [required |-> f \in model.required]]]

\* GET /api/schema
get_schema ==
    /\ req' = [op |-> "get_schema"]
    /\ resp' = Ok([event |-> model_schema(Event),
                   booking |-> model_schema(Booking),
                   trainingapplication |-> model_schema(TrainingApplication),
                   contactmessage |-> model_schema(ContactMessage),
                   story |-> model_schema(Story),
                   partner |-> model_schema(Partner),
                   resource |-> model_schema(Resource),
                   sitestat |-> model_schema(SiteStat)])
    /\ UNCHANGED <<db, reachable, store, nextId>>

\* Listing without its except branch: the exception reaches the client.
ListingPropagates(result) ==
    IF result.ok THEN Ok([items |-> result.items])
    ELSE [status |-> 500, body |-> [detail |-> "Internal Server Error"]]

\* try: return {"items": items}  except: return {"items": [], "error": str(e)}
Listing(result) ==
    IF result.ok THEN Ok([items |-> result.items])
    ELSE Ok([items |-> <<>>, error |-> result.error])

\* list_events that does not pass its limit on.
ListEventsIgnoresLimit(limit) ==
    /\ req' = [op |-> "list_events", limit |-> limit]
    /\ resp' = Listing(get_documents("event", <<>>, None))
    /\ UNCHANGED <<db, reachable, store, nextId>>

\* GET /api/events
list_events(limit) ==
    /\ req' = [op |-> "list_events", limit |-> limit]
    /\ resp' = Listing(get_documents("event", <<>>,
                           Defaulted(limit, EventsDefaultLimit)))
    /\ UNCHANGED <<db, reachable, store, nextId>>

\* Submit with an except branch that answers as if the insert had succeeded.
SubmitSwallowsFailure(op, schema, body) ==
    LET errors == ValidationErrors(schema, body)
        result == create_document(schema.collection, Validated(schema, body))
    IN  /\ req' = [op |-> op, body |-> body]
        /\ IF errors # {}
           THEN /\ resp' = Unprocessable(errors)
                /\ UNCHANGED <<store, nextId>>
           ELSE IF result.ok
           THEN /\ nextId <= MaxInserts
                /\ store' = [store EXCEPT ![result.collection] =
                                Append(@, result.document)]
                /\ nextId' = nextId + 1
                /\ resp' = Ok([id |-> result.id, status |-> "ok"])
           ELSE /\ resp' = Ok([id |-> "None", status |-> "ok"])
                /\ UNCHANGED <<store, nextId>>
        /\ UNCHANGED <<db, reachable>>

\* try: create_document(...); return {"id": inserted_id, "status": "ok"}
\* except: raise HTTPException(status_code=503, detail=str(e))
\* preceded by FastAPI's validation of the body against the schema.
Submit(op, schema, body) ==
    LET errors == ValidationErrors(schema, body)
        result == create_document(schema.collection,
                                  Validated(schema, body))
    IN  /\ req' = [op |-> op, body |-> body]
        /\ IF errors # {}
           THEN /\ resp' = Unprocessable(errors)
                /\ UNCHANGED <<store, nextId>>
           ELSE IF result.ok
           THEN /\ nextId <= MaxInserts
                /\ store' = [store EXCEPT ![result.collection] =
                                Append(@, result.document)]
                /\ nextId' = nextId + 1
                /\ resp' = Ok([id |-> result.id, status |-> "ok"])
           ELSE /\ resp' = HTTPException(ServiceUnavailable, result.error)
                /\ UNCHANGED <<store, nextId>>
        /\ UNCHANGED <<db, reachable>>

\* create_booking pasted from another handler with its collection name kept.
CreateBookingPastedCollection(booking) ==
    Submit("create_booking", [Booking EXCEPT !.collection = "contactmessage"],
           booking)

\* POST /api/bookings
create_booking(booking) ==
    Submit("create_booking", Booking, booking)

ResourceQuery(type, language) ==
    [f \in {k \in {"type"} : Truthy(type)}
           \cup {k \in {"language"} : Truthy(language)} |->
        IF f = "type" THEN type[1] ELSE language[1]]

\* GET /api/resources
list_resources(limit, type, language) ==
    /\ req' = [op |-> "list_resources", limit |-> limit, type |-> type,
               language |-> language]
    /\ resp' = Listing(get_documents("resource", ResourceQuery(type, language),
                           Defaulted(limit, ResourcesDefaultLimit)))
    /\ UNCHANGED <<db, reachable, store, nextId>>

\* list_partners that connects on demand when there is no connection.
ListPartnersReconnects(limit) ==
    /\ req' = [op |-> "list_partners", limit |-> limit]
    /\ resp' = Listing(get_documents("partner", <<>>,
                           Defaulted(limit, PartnersDefaultLimit)))
    /\ db' = Connected
    /\ UNCHANGED <<reachable, store, nextId>>

\* GET /api/partners
list_partners(limit) ==
    /\ req' = [op |-> "list_partners", limit |-> limit]
    /\ resp' = Listing(get_documents("partner", <<>>,
                           Defaulted(limit, PartnersDefaultLimit)))
    /\ UNCHANGED <<db, reachable, store, nextId>>

\* GET /api/stories
list_stories(limit) ==
    /\ req' = [op |-> "list_stories", limit |-> limit]
    /\ resp' = Listing(get_documents("story", [featured |-> TRUE],
                           Defaulted(limit, StoriesDefaultLimit)))
    /\ UNCHANGED <<db, reachable, store, nextId>>

FallbackStats ==
    <<[label |-> "Tests Conducted", value |-> 0],
      [label |-> "Youth Trained", value |-> 0],
      [label |-> "Communities Served", value |-> 0],
      [label |-> "Lives Impacted", value |-> 0]>>

\* list_stats whose except branch degrades like the list endpoints.
ListStatsErrorNoFallback ==
    LET result == get_documents("sitestat", <<>>, None)
    IN  /\ req' = [op |-> "list_stats"]
        /\ resp' = IF result.ok
                   THEN Ok([items |-> IF result.items = <<>>
                                      THEN FallbackStats
                                      ELSE result.items])
                   ELSE Ok([items |-> <<>>, error |-> result.error])
        /\ UNCHANGED <<db, reachable, store, nextId>>

\* list_stats that writes the defaults to the store when none exist yet.
ListStatsSeedsFallback ==
    LET result == get_documents("sitestat", <<>>, None)
    IN  /\ req' = [op |-> "list_stats"]
        /\ resp' = IF result.ok
                   THEN Ok([items |-> IF result.items = <<>>
                                      THEN FallbackStats
                                      ELSE result.items])
                   ELSE Ok([items |-> FallbackStats])
        /\ store' = IF result.ok /\ result.items = <<>>
                    THEN [store EXCEPT !["sitestat"] = FallbackStats]
                    ELSE store
        /\ UNCHANGED <<db, reachable, nextId>>

\* GET /api/stats
list_stats ==
    LET result == get_documents("sitestat", <<>>, None)
    IN  /\ req' = [op |-> "list_stats"]
        /\ resp' = IF result.ok
                   THEN Ok([items |-> IF result.items = <<>>
                                      THEN FallbackStats
                                      ELSE result.items])
                   ELSE Ok([items |-> FallbackStats])
        /\ UNCHANGED <<db, reachable, store, nextId>>

\* POST /api/applications
submit_training_application(app_data) ==
    Submit("submit_training_application", TrainingApplication, app_data)

\* POST /api/contact
submit_contact_message(msg) ==
    Submit("submit_contact_message", ContactMessage, msg)

\* The store becomes unreachable, or reachable again, at any time.
connectivity_changes ==
    /\ reachable' = ~reachable
    /\ UNCHANGED <<db, store, nextId, req, resp>>

Next ==
    \/ read_root
    \/ \E u \in EnvValues, n \in EnvValues, x \in BOOLEAN :
          test_database(u, n, x)
    \/ get_schema
    \/ \E l \in Limits : list_events(l)
    \/ \E b \in BookingBodies : create_booking(b)
    \/ \E l \in Limits, t \in TypeParams, g \in LanguageParams :
          list_resources(l, t, g)
    \/ \E l \in Limits : list_partners(l)
    \/ \E l \in Limits : list_stories(l)
    \/ list_stats
    \/ \E a \in ApplicationBodies : submit_training_application(a)
    \/ \E m \in ContactBodies : submit_contact_message(m)
    \/ connectivity_changes

Spec == Init /\ [][Next]_vars

\* ------------------------------------------------------------------------
\* Vocabulary of the properties
\* ------------------------------------------------------------------------
WriteOps ==
    {"create_booking", "submit_training_application", "submit_contact_message"}

ListOps == {"list_events", "list_resources", "list_partners", "list_stories"}

GetOps ==
    ListOps \cup {"read_root", "test_database", "get_schema", "list_stats"}

SchemaOf(op) ==
    CASE op = "create_booking" -> Booking
      [] op = "submit_training_application" -> TrainingApplication
      [] op = "submit_contact_message" -> ContactMessage

WriteCollection(op) ==
    CASE op = "create_booking" -> "booking"
      [] op = "submit_training_application" -> "trainingapplication"
      [] op = "submit_contact_message" -> "contactmessage"

ListCollection(op) ==
    CASE op = "list_events" -> "event"
      [] op = "list_resources" -> "resource"
      [] op = "list_partners" -> "partner"
      [] op = "list_stories" -> "story"

\* This step is the handling of a request to op (the only other step, a
\* change of connectivity, is not a request).
Handled(op) == reachable' = reachable /\ req'.op = op

StoreWorks == db # NoDb /\ reachable

Range(s) == {s[i] : i \in 1..Len(s)}

\* The success envelope {id, status: "ok"} with a non-empty id string.
SuccessEnvelope(r) ==
    /\ r.status = 200
    /\ DOMAIN r.body = {"id", "status"}
    /\ r.body.status = "ok"
    /\ Len(r.body.id) > 0

\* A body its schema accepts.
ValidBody(op, body) == ValidationErrors(SchemaOf(op), body) = {}

\* What the store holds for field f of an accepted body: the value sent
\* (an email address with its domain in lower case), or the schema's
\* default when the body omits f.
StoredValue(op, body, f) ==
    IF f \notin DOMAIN body THEN SchemaOf(op).defaults[f]
    ELSE IF f = "email" THEN NormalizeEmail(body[f])
    ELSE body[f]

\* No document is ever changed or removed.
DocumentsKept ==
    \A c \in Collections : \A i \in 1..Len(store[c]) :
        i <= Len(store'[c]) /\ store'[c][i] = store[c][i]

\* ------------------------------------------------------------------------
\* C1
\* ------------------------------------------------------------------------
\* C1, as stated: a valid body submitted while the store works is answered
\* by the success envelope, and its collection then holds a record that
\* consists of the store's identifier and exactly the submitted fields with
\* the submitted values; records are kept in every later state.
C1_SubmittedFieldsExactly ==
    [][/\ \A op \in WriteOps :
             (Handled(op) /\ ValidBody(op, req'.body) /\ StoreWorks) =>
                /\ SuccessEnvelope(resp')
                /\ \E doc \in Range(store'[WriteCollection(op)]) :
                      /\ IdString(doc._id) = resp'.body.id
                      /\ Without(doc, "_id") = req'.body
       /\ DocumentsKept]_vars

\* C1, amended: a valid body submitted while the store works is answered by
\* the success envelope with a non-empty id string, and its collection then
\* holds a record under that id made of the schema's fields and the store's
\* identifier only, each submitted field under its own name with the value
\* submitted (the email address in normalised form) and each omitted
\* optional field with its schema default; records are kept in every later
\* state.
C1_ValidatedRecordPersisted ==
    [][/\ \A op \in WriteOps :
             (Handled(op) /\ ValidBody(op, req'.body) /\ StoreWorks) =>
                /\ SuccessEnvelope(resp')
                /\ \E doc \in Range(store'[WriteCollection(op)]) :
                      /\ IdString(doc._id) = resp'.body.id
                      /\ DOMAIN doc = SchemaOf(op).fields \cup {"_id"}
                      /\ \A f \in SchemaOf(op).fields :
                            doc[f] = StoredValue(op, req'.body, f)
       /\ DocumentsKept]_vars

\* A booking that omits its optional fields has been accepted and stored,
\* and further requests have been served since.
C1_Witness ==
    /\ req.op = "list_events"
    /\ \E doc \in Range(store["booking"]) :
          /\ doc.phone = None
          /\ doc.ticket_quantity = TicketQuantityDefault
          /\ doc.email = EmailPlain

\* ------------------------------------------------------------------------
\* C2
\* ------------------------------------------------------------------------
MissingRequired(op, body) ==
    \E f \in SchemaOf(op).required : f \notin DOMAIN body

SyntacticallyInvalidEmail(body) ==
    "email" \in DOMAIN body /\ ~ValidEmail(body.email)

NumericBoundViolated(op, body) ==
    \/ /\ op = "create_booking"
       /\ "ticket_quantity" \in DOMAIN body
       /\ body.ticket_quantity \notin 1..10
    \/ /\ op = "submit_training_application"
       /\ "age" \in DOMAIN body
       /\ body.age # None
       /\ body.age[1] \notin 16..100

Rejectable(op, body) ==
    \/ MissingRequired(op, body)
    \/ SyntacticallyInvalidEmail(body)
    \/ NumericBoundViolated(op, body)

\* C2: a write request whose body misses a required field, carries a
\* syntactically invalid email or violates a numeric bound is answered with
\* a client error, and every collection is the same after it as before.
C2_InvalidBodyRejected ==
    [][\A op \in WriteOps :
          (Handled(op) /\ Rejectable(op, req'.body)) =>
             /\ resp'.status \in 400..499
             /\ store' = store
             /\ nextId' = nextId]_vars

\* An application with an out-of-range age has been refused while the store
\* was able to take it.
C2_Witness ==
    /\ req.op = "submit_training_application"
    /\ "age" \in DOMAIN req.body
    /\ req.body.age = Some(AgeMax + 1)
    /\ resp.status = 422
    /\ StoreWorks
    /\ store["trainingapplication"] = <<>>

\* ------------------------------------------------------------------------
\* C3
\* ------------------------------------------------------------------------
\* C3: a write request that reaches the insert (its body is valid) while
\* there is no connection or the store cannot be operated is answered 503
\* with a non-empty detail message and inserts nothing, then or by a retry;
\* and a write request answered by the success envelope has inserted its
\* document.
C3_FailedInsertIsUnavailable ==
    [][\A op \in WriteOps :
          /\ (Handled(op) /\ ValidBody(op, req'.body) /\ ~StoreWorks) =>
                /\ resp'.status = 503
                /\ DOMAIN resp'.body = {"detail"}
                /\ resp'.body.detail # ""
                /\ store' = store
                /\ nextId' = nextId
          /\ (Handled(op) /\ resp'.status = 200) =>
                /\ StoreWorks
                /\ Len(store'[WriteCollection(op)]) =
                      Len(store[WriteCollection(op)]) + 1]_vars

\* A valid contact message has been answered 503 over a connection whose
\* store could not be reached.
C3_Witness ==
    /\ req.op = "submit_contact_message"
    /\ req.body = ContactComplete
    /\ resp.status = 503
    /\ db = Connected
    /\ ~reachable
    /\ store["contactmessage"] = <<>>

\* ------------------------------------------------------------------------
\* C4
\* ------------------------------------------------------------------------
\* C4: each of the four list endpoints answers with success status; when
\* the query fails the body is {items: [], error: <non-empty string>}, and
\* when it succeeds the body is {items: <records of the collection>} with
\* no error field.
C4_ListDegradesToEmpty ==
    [][\A op \in ListOps :
          Handled(op) =>
             /\ resp'.status = 200
             /\ IF StoreWorks
                THEN /\ DOMAIN resp'.body = {"items"}
                     /\ Range(resp'.body.items)
                           \subseteq Range(store[ListCollection(op)])
                ELSE /\ DOMAIN resp'.body = {"items", "error"}
                     /\ resp'.body.items = <<>>
                     /\ resp'.body.error # ""]_vars

\* The partner list has degraded over a connection to an unreachable store
\* that holds partners.
C4_Witness ==
    /\ req.op = "list_partners"
    /\ db = Connected
    /\ ~reachable
    /\ store["partner"] # <<>>
    /\ "error" \in DOMAIN resp.body
    /\ resp.body.items = <<>>

\* ------------------------------------------------------------------------
\* C5
\* ------------------------------------------------------------------------
FourZeroStats ==
    <<[label |-> "Tests Conducted", value |-> 0],
      [label |-> "Youth Trained", value |-> 0],
      [label |-> "Communities Served", value |-> 0],
      [label |-> "Lives Impacted", value |-> 0]>>

\* C5: GET /api/stats answers with success status and a body of items only
\* (no error field): the four zero-valued entries in their order when the
\* sitestat query fails or finds nothing, and otherwise exactly the stored
\* sitestat records, all of them.
C5_StatsFallback ==
    [][Handled("list_stats") =>
          /\ resp'.status = 200
          /\ DOMAIN resp'.body = {"items"}
          /\ resp'.body.items =
                IF ~StoreWorks \/ store["sitestat"] = <<>>
                THEN FourZeroStats
                ELSE store["sitestat"]]_vars

\* The fallback has been served from a working store without stats.
C5_Witness ==
    /\ req.op = "list_stats"
    /\ StoreWorks
    /\ store["sitestat"] = <<>>
    /\ resp.body.items = FourZeroStats

C7_ItemsSatisfyFilter ==
    [][/\ Handled("list_resources") =>
             \A item \in Range(resp'.body.items) :
                /\ req'.type # None => item.type = req'.type[1]
                /\ req'.language # None => item.language = req'.language[1]
       /\ Handled("list_stories") =>
             \A item \in Range(resp'.body.items) : item.featured]_vars

\* ------------------------------------------------------------------------
\* C8
\* ------------------------------------------------------------------------
\* C8: once the connection attempt at start has failed (db is None), db is
\* None after every step, and every request is answered accordingly: a
\* write request never with success and never with an insertion, a valid
\* one with 503; a list request with empty items and an error; the stats
\* request with the fallback entries.
C8_DisconnectedForever ==
    [][db = NoDb =>
          /\ db' = NoDb
          /\ store' = store
          /\ \A op \in WriteOps :
                Handled(op) =>
                   /\ resp'.status # 200
                   /\ ValidBody(op, req'.body) => resp'.status = 503
          /\ \A op \in ListOps :
                Handled(op) =>
                   /\ resp'.body.items = <<>>
                   /\ "error" \in DOMAIN resp'.body
          /\ Handled("list_stats") => resp'.body.items = FourZeroStats]_vars

\* Without a connection, and with the store itself reachable, a valid
\* booking has been answered 503.
C8_Witness ==
    /\ db = NoDb
    /\ reachable
    /\ req.op = "create_booking"
    /\ req.body = BookingComplete
    /\ resp.status = 503

\* ------------------------------------------------------------------------
\* C9
\* ------------------------------------------------------------------------
Configured(value) == value # None /\ value # Some("")

\* C9: GET /test answers with success status whatever the connection; the
\* backend field reports running; database_url and database_name say only
\* whether the configuration value is set; the collections are listed when
\* the listing succeeded and are empty otherwise; a failed step leaves its
\* mark in the database field alone.
C9_DiagnosticNeverFails ==
    [][Handled("test_database") =>
          LET listed == StoreWorks /\ ~req'.name_raises
          IN  /\ resp'.status = 200
              /\ resp'.body.backend = "Running"
              /\ resp'.body.database_url =
                    (IF Configured(req'.env_url) THEN "Set" ELSE "Not Set")
              /\ resp'.body.database_name =
                    (IF Configured(req'.env_name) THEN "Set" ELSE "Not Set")
              /\ resp'.body.collections =
                    (IF listed THEN {c \in Collections : store[c] # <<>>}
                     ELSE {})
              /\ (resp'.body.database = "Connected & Working") = listed]_vars

\* The listing has failed over a connection while the database name was not
\* configured.
C9_Witness ==
    /\ req.op = "test_database"
    /\ db = Connected
    /\ ~reachable
    /\ ~req.name_raises
    /\ req.env_name = None
    /\ req.env_url # None
    /\ resp.status = 200
    /\ resp.body.database = "Connected but Error: listing failed"
    /\ resp.body.database_name = "Not Set"
    /\ resp.body.collections = {}

\* ------------------------------------------------------------------------
\* C10
\* ------------------------------------------------------------------------
\* C10: no step changes or removes a document; the event, story, partner,
\* resource and sitestat collections never change; every GET request leaves
\* every collection unchanged; a step that changes the store is a write
\* request answered with success that appends one document to its own
\* collection and leaves the others alone, and every write request answered
\* with success is such a step.
C10_StoreGrowsByWritesOnly ==
    [][/\ DocumentsKept
       /\ \A c \in SeededCollections : store'[c] = store[c]
       /\ \A op \in GetOps : Handled(op) => store' = store
       /\ store' # store => \E op \in WriteOps : Handled(op) /\ resp'.status = 200
       /\ \A op \in WriteOps :
             (Handled(op) /\ resp'.status = 200) =>
                /\ Len(store'[WriteCollection(op)]) =
                      Len(store[WriteCollection(op)]) + 1
                /\ \A c \in Collections \ {WriteCollection(op)} :
                      store'[c] = store[c]]_vars

\* An application has been stored beside stats that are still absent, and
\* the stats fallback has been served since.
C10_Witness ==
    /\ req.op = "list_stats"
    /\ Len(store["trainingapplication"]) = 1
    /\ store["sitestat"] = <<>>
    /\ store["booking"] = <<>>
    /\ resp.body.items = FourZeroStats

====
